---- MODULE Spec2Model ----
(***************************************************************************)
(* TrafficSession (src/traffic-sender.js, lines 6-508): the batch          *)
(* dispatcher with its retry pass, modelled at the granularity of the      *)
(* JavaScript event loop.  One action is one macrotask: an API call        *)
(* (start, stop), a timer firing (stagger, backoff, adaptive delay, retry  *)
(* stagger, retry gap) or the settling of one fetch.  Everything the code  *)
(* runs between two suspension points (the awaits on timers and on fetch)  *)
(* is part of the same action.                                             *)
(*                                                                         *)
(* Each start() call that passes the running guard is an async call frame  *)
(* of its own; frames[f] holds its position.  The fields of the session    *)
(* object are shared by all frames.                                        *)
(***************************************************************************)
EXTENDS Integers, Sequences, FiniteSets, TLC

\* ---------------------------------------------------------------- bounds
MaxImpressions == 2
MaxRetries     == 2
MaxStartCalls  == 2
MaxStopCalls   == 2
\* the concurrency planner is tabulated for the delays 1 .. MaxPlannerDelay
MaxPlannerDelay == 1100
\* the size of the long session: 100 tasks dispatched with width 1
LongImpressions == 100
MaxSessions == 2

\* ----------------------------------------------------- program constants
RetryQueueCap == 1000
SessionsKept  == 10     \* sessions.slice(-10), line 495
MinAdaptiveDelay == 200 \* Math.max(200, ...), line 390 (milliseconds)

\* config.delay values the sessions are built with (widths 2 and 1)
Delays == {500, 1000}
Tiers  == {"balanced"}

\* delays and tiers the concurrency planner is exercised with: negative, zero,
\* small, exact divisors, just above 1000 and very large; the three known tiers
\* and an unknown one
PlannerDelays == {-1000, -1, 0, 1, 125, 1000, 1001, 1000000000}
PlannerTiers  == {"premium", "balanced", "aggressive", "unknown"}

\* HTTP statuses a fetch may resolve with; 0 stands for a network error
\* (fetch rejects without a response).
NetworkError == 0
Statuses == {200, 302, 400, 403, 404, 500, NetworkError}

Min(a, b) == IF a < b THEN a ELSE b
Max(a, b) == IF a > b THEN a ELSE b
CeilDiv(a, b) == (a + b - 1) \div b

VARIABLES
    config,        \* this.config (immutable)
    origin,        \* how the destination answers: "any", "all500", "all404"
    audit,         \* whether the per-task history below is recorded in this session
    throwing,      \* tasks for which a provider call inside executeRequest throws
    sink,          \* "ok", or "throws": the localStorage calls of saveSessionResults throw
    proxied,       \* tasks for which ProxyManager.getProxyForRequest returns a proxy
    trace,         \* what this session records of its executor: "none", "attempts", "waits"
    isRunning,     \* this.isRunning
    currentBatch,  \* this.currentBatch: set of controllers <<frame, position>>; {} is null
    retryQueue,    \* this.retryQueue: sequence of task ids
    retryCount,    \* requestQueue[i].retryCount, by task id
    stats,         \* this.stats
    successRate,   \* this.performance.successRate, a percentage as <<numerator, denominator>>
    frames,        \* the async frames of the accepted start() calls
    saved,         \* number of summaries handed to saveSessionResults
    stored,        \* localStorage 'trafficSessions': the summaries, by serial number
    proxyReports,  \* ProxyManager.reportProxyFailure calls made, by task id
    exhausted,     \* history: executor runs that used up all their attempts, by task id
    lastAttempt,   \* history: the request attempt that settled last
    backoffs,      \* history: per task, the last backoff wait of its run and the one before
    lastWait,      \* history: the last inter-batch wait, in microseconds, and its batch index
    dispatched,    \* history: the primary-pass launches, in order, as <<batch index, task id>>
    enqueued,      \* history: times each task was pushed on this.retryQueue
    outcome,       \* history: how each task's primary run ended ("none", "ok", "failed")
    tally,         \* history: how processBatchResults counted each task
    issuedP,       \* history: fetch calls issued per task by primary-pass runs
    issuedR,       \* history: fetch calls issued per task by retry-pass runs
    startCalls,    \* history: start() calls made (accepted or not)
    stopCalls,     \* history: stop() calls made
    stoppedInPrimary, \* history: stop() was called while a primary pass was under way
    stopMid,       \* history: the first stop() made while a batch had tasks in flight
    proxyManager,  \* the static state of ProxyManager and its pending initialize() calls
    app            \* the fields of TrafficSenderApp and the position of its startTraffic() call

sessionVars == <<config, origin, audit, throwing, sink, proxied, trace, isRunning, currentBatch, retryQueue,
          retryCount, stats, successRate, frames, saved, stored,
          proxyReports, exhausted, lastAttempt, backoffs, lastWait, dispatched, enqueued, outcome, tally, issuedP, issuedR,
          startCalls, stopCalls, stoppedInPrimary, stopMid>>

vars == <<sessionVars, proxyManager, app>>

\* The mutable part of the state as one record, so that the code run by one
\* macrotask can be written as a composition of functions on it.
World ==
    [isRunning |-> isRunning, currentBatch |-> currentBatch, retryQueue |-> retryQueue,
     retryCount |-> retryCount, stats |-> stats, successRate |-> successRate,
     frames |-> frames, saved |-> saved, stored |-> stored, dispatched |-> dispatched,
     proxyReports |-> proxyReports, exhausted |-> exhausted, lastAttempt |-> lastAttempt,
     lastWait |-> lastWait, backoffs |-> backoffs,
     enqueued |-> enqueued, outcome |-> outcome, tally |-> tally, issuedP |-> issuedP, issuedR |-> issuedR, startCalls |-> startCalls,
     stopCalls |-> stopCalls, stoppedInPrimary |-> stoppedInPrimary,
     stopMid |-> stopMid]

\* ------------------------------------------------- TrafficSenderApp fields
\* part_001 lines 8-9: isRunning is false and currentSession is null (FALSE);
\* no startTraffic() call is pending, none has been made; stopped says whether
\* stopTraffic() has stopped the session that startTraffic() created last,
\* sessions counts the sessions created
NotStarted ==
    [isRunning |-> FALSE, currentSession |-> FALSE, pc |-> "idle",
     stopped |-> FALSE, lastCall |-> "none", sessions |-> 0]

\* startTraffic() from `await this.currentSession.start()` on (part_001 lines
\* 148-157), run when the start() call of the session, its first, has settled
\* in w: after a resolution the user interface is set to 'running' and the
\* statistics timer is started, after a rejection the catch block clears
\* isRunning
resumeStartTraffic(a, w) ==
    IF a.pc # "awaiting"
    THEN a
    ELSE CASE w.frames[1].pc = "done" -> [a EXCEPT !.pc = "resumed"]
           [] w.frames[1].pc = "rejected" ->
                  [a EXCEPT !.pc = "failed", !.isRunning = FALSE, !.lastCall = "failed"]
           [] OTHER -> a

\* (w is bound once, to the value of the whole macrotask; a is the application
\* as the macrotask leaves it before a pending startTraffic() call resumes)
CommitApp(world, a) ==
    \E w \in {world} :
        /\ isRunning' = w.isRunning
        /\ currentBatch' = w.currentBatch
        /\ retryQueue' = w.retryQueue
        /\ retryCount' = w.retryCount
        /\ stats' = w.stats
        /\ successRate' = w.successRate
        /\ frames' = w.frames
        /\ saved' = w.saved
        /\ stored' = w.stored
        /\ dispatched' = w.dispatched
        /\ proxyReports' = w.proxyReports
        /\ exhausted' = w.exhausted
        /\ lastAttempt' = w.lastAttempt
        /\ lastWait' = w.lastWait
        /\ backoffs' = w.backoffs
        /\ enqueued' = w.enqueued
        /\ outcome' = w.outcome
        /\ tally' = w.tally
        /\ issuedP' = w.issuedP
        /\ issuedR' = w.issuedR
        /\ startCalls' = w.startCalls
        /\ stopCalls' = w.stopCalls
        /\ stoppedInPrimary' = w.stoppedInPrimary
        /\ stopMid' = w.stopMid
        /\ UNCHANGED <<config, origin, audit, throwing, sink, proxied, trace>>
        /\ UNCHANGED proxyManager
        /\ app' = resumeStartTraffic(a, w)

Commit(world) == CommitApp(world, app)

Tasks == 1 .. config.impressions
FrameIds == 1 .. MaxStartCalls

\* ------------------------------------------------------ adjustConcurrency
\* line 61 without the lower clamp Math.max(1, ...)
adjustConcurrency_Unclamped(delay, tier) ==
    LET quotient == IF delay = 0 THEN 10
                    ELSE IF delay < 0 THEN 0 - CeilDiv(1000, 0 - delay)
                    ELSE 1000 \div delay
        baseConcurrency == Min(10, quotient)
    IN CASE tier = "premium"    -> Min(8, baseConcurrency)
         [] tier = "balanced"   -> Min(12, baseConcurrency)
         [] tier = "aggressive" -> Min(15, baseConcurrency)
         [] OTHER               -> Min(5, baseConcurrency)

\* adjustConcurrency without the upper end of the clamp
adjustConcurrency_NoUpperClamp(delay, tier) ==
    LET quotient == IF delay = 0 THEN 10
                    ELSE IF delay < 0 THEN 0 - CeilDiv(1000, 0 - delay)
                    ELSE 1000 \div delay
        baseConcurrency == Max(1, quotient)
    IN CASE tier = "premium"    -> Min(8, baseConcurrency)
         [] tier = "balanced"   -> Min(12, baseConcurrency)
         [] tier = "aggressive" -> Min(15, baseConcurrency)
         [] OTHER               -> Min(5, baseConcurrency)

\* adjustConcurrency with the default tier given the premium cap
adjustConcurrency_DefaultCapIsPremium(delay, tier) ==
    LET quotient == IF delay = 0 THEN 10
                    ELSE IF delay < 0 THEN 0 - CeilDiv(1000, 0 - delay)
                    ELSE 1000 \div delay
        baseConcurrency == Max(1, Min(10, quotient))
    IN CASE tier = "premium"    -> Min(8, baseConcurrency)
         [] tier = "balanced"   -> Min(12, baseConcurrency)
         [] tier = "aggressive" -> Min(15, baseConcurrency)
         [] OTHER               -> Min(8, baseConcurrency)

\* lines 60-78.  Math.floor(1000 / delay) is Infinity for delay = 0, which
\* Math.min(10, ...) turns into 10, and rounds towards minus infinity for a
\* negative delay.
adjustConcurrency(delay, tier) ==
    LET quotient == IF delay = 0 THEN 10
                    ELSE IF delay < 0 THEN 0 - CeilDiv(1000, 0 - delay)
                    ELSE 1000 \div delay
        baseConcurrency == Max(1, Min(10, quotient))
    IN CASE tier = "premium"    -> Min(8, baseConcurrency)
         [] tier = "balanced"   -> Min(12, baseConcurrency)
         [] tier = "aggressive" -> Min(15, baseConcurrency)
         [] OTHER               -> Min(5, baseConcurrency)

concurrency == adjustConcurrency(config.delay, config.proxyQuality)

\* the number of batches rounded down instead of up
totalBatches_RoundedDown == config.impressions \div concurrency

\* processOptimizedBatches: totalBatches and the slice of one batch (task ids)
totalBatches == CeilDiv(config.impressions, concurrency)

Batch(batchIndex) ==
    LET startIdx == batchIndex * concurrency
        endIdx == Min(startIdx + concurrency, config.impressions)
    IN [i \in 1 .. (endIdx - startIdx) |-> startIdx + i]

\* ----------------------------------------------------------------- frames
NoFrame ==
    [pc |-> "none", batchIndex |-> 0, run |-> <<>>,
     ri |-> 0, retryBatches |-> 0, retrySuccessful |-> 0, retryFailed |-> 0]

Settled(r) == r.st \in {"ok", "failed"}
InFlight(r) == r.st \in {"fetch", "backoff"}
AllSettled(run) == \A p \in 1 .. Len(run) : Settled(run[p])

NoStopMid == [set |-> FALSE, f |-> 0, bi |-> 0, inflight |-> {}, verdict |-> "none"]

\* ------------------------------------------ complete / saveSessionResults
\* Array.prototype.slice(-n): the last n elements, all of them if there are fewer
SliceLast(s, n) == SubSeq(s, Max(1, Len(s) - n + 1), Len(s))

\* A summary is represented by its serial number in the stored list: the
\* summaries persisted so far are numbered in the order they were persisted.
NextSerial(list) == IF list = <<>> THEN 1 ELSE list[Len(list)] + 1

\* saveSessionResults keeping the first entries of the list instead of the last
saveSessionResults_KeepsOldest(w) ==
    [w EXCEPT !.saved = @ + 1,
              !.stored = IF sink = "throws" THEN @
                         ELSE SubSeq(Append(@, NextSerial(@)), 1,
                                     Min(SessionsKept, Len(@) + 1))]

\* lines 483-496: parse the stored list, push the summary, store the last 10;
\* nothing is stored when a localStorage call throws
saveSessionResults(w) ==
    [w EXCEPT !.saved = @ + 1,
              !.stored = IF sink = "throws" THEN @
                         ELSE SliceLast(Append(@, NextSerial(@)), SessionsKept)]

\* lines 464-481; an exception of saveSessionResults (lines 493-495) leaves
\* complete() and then start() (line 102): the call's promise rejects
complete(w, f) ==
    LET w1 == saveSessionResults([w EXCEPT !.isRunning = FALSE,
                                           !.frames[f].run = <<>>])
    IN IF sink = "throws"
       THEN [w1 EXCEPT !.frames[f].pc = "rejected"]
       ELSE [w1 EXCEPT !.frames[f].pc = "done"]

\* ------------------------------------------------------ processRetryQueue
retryConcurrency == Max(1, concurrency \div 2)

\* lines 374-382 with the retried tasks added to stats.sent as well
finishRetry_CountsSent(w, f) ==
    LET fr == w.frames[f]
    IN complete([w EXCEPT !.stats.sent = @ + fr.retrySuccessful + fr.retryFailed,
                          !.stats.successful = @ + fr.retrySuccessful,
                          !.stats.failed = @ + fr.retryFailed,
                          !.retryQueue = <<>>], f)

\* lines 374-382, then start() line 102
finishRetry(w, f) ==
    LET fr == w.frames[f]
    IN complete([w EXCEPT !.stats.successful = @ + fr.retrySuccessful,
                          !.stats.failed = @ + fr.retryFailed,
                          !.retryQueue = <<>>], f)

\* lines 359-371: the chunk's results are counted; delay(500) unless last
retryChunkSettled(w, f) ==
    LET fr == w.frames[f]
        ok == Cardinality({p \in 1 .. Len(fr.run) : fr.run[p].st = "ok"})
        w1 == [w EXCEPT !.frames[f].retrySuccessful = @ + ok,
                        !.frames[f].retryFailed = @ + (Len(fr.run) - ok),
                        !.frames[f].run = <<>>]
    IN IF fr.ri < fr.retryBatches - 1
       THEN [w1 EXCEPT !.frames[f].pc = "retryGap"]
       ELSE finishRetry(w1, f)

\* lines 346-357: one iteration of the retry loop, at index frames[f].ri
retryLoop(w, f) ==
    LET fr == w.frames[f]
    IN IF fr.ri < fr.retryBatches /\ w.isRunning
       THEN LET startIdx == fr.ri * retryConcurrency
                endIdx == Min(startIdx + retryConcurrency, Len(w.retryQueue))
                retryBatch == [i \in 1 .. Max(0, endIdx - startIdx) |->
                                  [id |-> w.retryQueue[startIdx + i], st |-> "wait",
                                   attempt |-> 0, aborted |-> FALSE]]
                w1 == [w EXCEPT !.frames[f].run = retryBatch, !.frames[f].pc = "retry"]
            IN IF Len(retryBatch) = 0 THEN retryChunkSettled(w1, f) ELSE w1
       ELSE finishRetry(w, f)

\* lines 335-344, entered from start() lines 98-100
processRetryQueue(w, f) ==
    IF Len(w.retryQueue) = 0
    THEN complete(w, f)
    ELSE retryLoop([w EXCEPT !.frames[f].ri = 0,
                             !.frames[f].retryBatches =
                                 CeilDiv(Len(w.retryQueue), retryConcurrency),
                             !.frames[f].retrySuccessful = 0,
                             !.frames[f].retryFailed = 0], f)

\* start() lines 98-102, after processOptimizedBatches has returned
afterPrimary(w, f) ==
    IF Len(w.retryQueue) > 0 THEN processRetryQueue(w, f) ELSE complete(w, f)

\* --------------------------------------------------- processBatchResults
\* the aggregation of lines 284-309 leaving out the entries that are not successes
processResult_SkipsFailed(w, r) ==
    IF r.st = "ok"
    THEN [w EXCEPT !.stats.sent = @ + 1, !.stats.successful = @ + 1,
                   !.tally[r.id] = IF audit THEN "ok" ELSE @]
    ELSE w

\* lines 284-309, for one entry of results
processResult(w, r) ==
    LET w1 == [w EXCEPT !.stats.sent = @ + 1,
                        !.tally[r.id] = IF audit THEN r.st ELSE @]
    IN IF r.st = "ok"
       THEN [w1 EXCEPT !.stats.successful = @ + 1]
       ELSE LET w2 == [w1 EXCEPT !.stats.failed = @ + 1]
            IN IF Len(w2.retryQueue) < RetryQueueCap
               THEN LET w3 == [w2 EXCEPT !.retryCount[r.id] = @ + 1]
                    IN IF w3.retryCount[r.id] <= config.maxRetries
                       THEN [w3 EXCEPT !.retryQueue = Append(@, r.id),
                                       !.enqueued[r.id] = @ + 1]
                       ELSE w3
               ELSE w2

RECURSIVE processBatchResults(_, _, _)
processBatchResults(w, results, i) ==
    IF i > Len(results) THEN w
    ELSE processBatchResults(processResult(w, results[i]), results, i + 1)

\* ------------------------------------- processBatch / processOptimizedBatches
\* executeRequest up to its first await: the first fetch is issued
\* (line 199), unless a provider call (line 165) throws: the promise is rejected
launch(w, f, t) ==
    LET w0 == [w EXCEPT !.dispatched =
                            IF audit THEN Append(@, <<w.frames[f].batchIndex, t>>) ELSE @]
    IN IF t \in throwing
       THEN [w0 EXCEPT !.frames[f].run =
                           Append(@, [id |-> t, st |-> "failed", attempt |-> 0,
                                      aborted |-> FALSE]),
                       !.outcome[t] = IF audit THEN "failed" ELSE @]
       ELSE [w0 EXCEPT !.frames[f].run =
                           Append(@, [id |-> t, st |-> "fetch", attempt |-> 0,
                                      aborted |-> FALSE]),
                       !.issuedP[t] = IF audit THEN @ + 1 ELSE @]

\* history: what became of the tasks the first mid-batch stop() cancelled
judgeStop(w, f) ==
    LET fr == w.frames[f]
        sm == w.stopMid
    IN IF sm.set /\ sm.f = f /\ sm.bi = fr.batchIndex /\ sm.verdict = "pending"
       THEN [w EXCEPT !.stopMid.verdict =
                IF \A p \in sm.inflight : fr.run[p].st = "failed"
                THEN "allFailed" ELSE "someOk"]
       ELSE w

RECURSIVE processBatch(_, _)
RECURSIVE nextBatch(_, _)

\* lines 155-161, then processOptimizedBatches lines 117-119 and the loop step
batchSettled(w, f) ==
    LET fr == w.frames[f]
        w1 == processBatchResults(judgeStop(w, f), fr.run, 1)
        w2 == [w1 EXCEPT !.currentBatch = {},
                         !.stats.batchCount = @ + 1,
                         !.frames[f].run = <<>>]
    IN IF w2.isRunning /\ fr.batchIndex < totalBatches - 1
       THEN [w2 EXCEPT !.frames[f].pc = "gap"]
       ELSE nextBatch([w2 EXCEPT !.frames[f].batchIndex = @ + 1], f)

\* lines 151-154: the controllers are published, then the join
awaitBatch(w, f) ==
    LET fr == w.frames[f]
        w1 == [w EXCEPT !.currentBatch = {<<f, p>> : p \in 1 .. Len(fr.run)},
                        !.frames[f].pc = "join"]
    IN IF AllSettled(fr.run) THEN batchSettled(w1, f) ELSE w1

\* lines 130-149: the launch loop, from the next task of the batch not launched
processBatch(w, f) ==
    LET fr == w.frames[f]
        batch == Batch(fr.batchIndex)
        k == Len(fr.run)
    IN IF k < Len(batch) /\ w.isRunning
       THEN LET w1 == launch(w, f, batch[k + 1])
            IN IF config.enableJitter
               THEN [w1 EXCEPT !.frames[f].pc = "stagger"]
               ELSE processBatch(w1, f)
       ELSE awaitBatch(w, f)

\* lines 108-115: the head of the loop, at index frames[f].batchIndex
nextBatch(w, f) ==
    LET fr == w.frames[f]
    IN IF fr.batchIndex < totalBatches /\ w.isRunning
       THEN processBatch([w EXCEPT !.frames[f].run = <<>>], f)
       ELSE afterPrimary(w, f)

processOptimizedBatches(w, f) ==
    nextBatch([w EXCEPT !.frames[f].batchIndex = 0], f)

\* --------------------------------------------------------- executeRequest
\* the classification of lines 202-224 with every response taken as delivered
Delivered_AnyResponse(status) == status # NetworkError

\* the classification of lines 202-224 with 403 and 404 thrown like other 4xx
Delivered_4xxThrows(status) ==
    IF status = NetworkError THEN FALSE
    ELSE IF status >= 200 /\ status <= 299 THEN TRUE
    ELSE IF status >= 400 THEN FALSE
    ELSE TRUE

\* lines 202-224: what the executor makes of a response (or of a rejection)
Delivered(status) ==
    IF status = NetworkError THEN FALSE
    ELSE IF status >= 200 /\ status <= 299 THEN TRUE
    ELSE IF status >= 500 THEN FALSE
    ELSE IF status >= 400 THEN status = 404 \/ status = 403
    ELSE TRUE

\* the catch block of lines 254-275 without the attempt count: it always backs
\* off and tries again
attemptFailed_RetriesForever(r) == [r EXCEPT !.st = "backoff"]

\* ----------------------------------------------------------- adaptiveDelay
\* values of Math.random() * 0.4 + 0.8 (line 394), in thousandths: the least
\* one, the middle one and one close to the upper end
JitterFactors == {800, 1000, 1199}

NoWait == [batchIndex |-> -1, sent |-> 0, adapted |-> 0, micros |-> 0]

\* lines 386-391: the delay before jitter, in microseconds (rounded down)
adaptedDelay(w, batchIndex) ==
    LET base == config.delay * 1000
    IN IF batchIndex > 10
       THEN Max(MinAdaptiveDelay * 1000,
                (base * (10 * w.stats.total - 3 * w.stats.sent))
                    \div (10 * w.stats.total))
       ELSE base

\* lines 385-396: the wait of adaptiveDelay for a jitter factor, in
\* microseconds (rounded down); progress is stats.sent / stats.total
adaptiveDelay(w, batchIndex, jitter) ==
    LET adapted == adaptedDelay(w, batchIndex)
    IN IF config.enableJitter THEN (adapted * jitter) \div 1000 ELSE adapted

\* history: attempt number `attempt` of a run of task `task` has settled with
\* `status` and left the run in state `st`
NoAttempt == [task |-> 0, status |-> 0, attempt |-> 0, st |-> "none"]

\* lines 254-275: the catch block of one failed attempt
attemptFailed(r) ==
    LET attempt == r.attempt + 1
    IN IF attempt = config.maxRetries
       THEN [r EXCEPT !.st = "failed", !.attempt = 0]
       ELSE [r EXCEPT !.st = "backoff", !.attempt = attempt]

\* lines 245-252 (and 212-219): the run returns a success
attemptSucceeded(r) == [r EXCEPT !.st = "ok", !.attempt = 0]

\* values of Math.random() * 100 (line 273), in milliseconds: the least one,
\* the middle one and one close to the upper end
BackoffJitters == {0, 50, 99}

NoBackoff == [attempt |-> 0, wait |-> 0, before |-> 0]

\* a backoff that grows by 50 ms per attempt
backoffDelay_Linear(attempt, jitter) == attempt * 50 + jitter

\* line 273: Math.pow(2, attempt) * 100 + Math.random() * 100, in milliseconds
backoffDelay(attempt, jitter) == 2 ^ attempt * 100 + jitter

\* history: the wait of line 274, if the settling fetch of run p sends its run
\* into a backoff, next to the previous wait of the same run
recordBackoff(w, f, p, delivered, jitter) ==
    LET r == w.frames[f].run[p]
        r1 == IF delivered THEN attemptSucceeded(r) ELSE attemptFailed(r)
    IN IF trace = "waits" /\ r1.st = "backoff"
       THEN [w EXCEPT !.backoffs[r.id] =
                          [attempt |-> r1.attempt,
                           wait |-> backoffDelay(r1.attempt, jitter),
                           before |-> IF r.attempt = 0 THEN 0 ELSE @.wait]]
       ELSE w

\* percentages are kept exact, as fractions in lowest terms
RECURSIVE GCD(_, _)
GCD(a, b) == IF b = 0 THEN a ELSE GCD(b, a % b)

Percent(n, d) == LET g == GCD(n * 100, d) IN <<(n * 100) \div g, d \div g>>

\* lines 401-410, the success rate (lines 408-409)
updatePerformanceMetrics(w) ==
    [w EXCEPT !.successRate = IF w.stats.sent > 0
                              THEN Percent(w.stats.successful, w.stats.sent)
                              ELSE <<100, 1>>]

\* lines 498-503
getStats(w) ==
    [sent |-> w.stats.sent, successful |-> w.stats.successful,
     failed |-> w.stats.failed, total |-> w.stats.total,
     performance |-> [successRate |-> w.successRate]]

\* a join that also resumes as soon as one promise has been rejected
resumeJoin_FailFast(w, f) ==
    LET fr == w.frames[f]
        rejected == \E p \in 1 .. Len(fr.run) : fr.run[p].st = "failed"
    IN IF ~(AllSettled(fr.run) \/ rejected) THEN w
       ELSE IF fr.pc = "join" THEN batchSettled(w, f)
       ELSE IF fr.pc = "retry" THEN retryChunkSettled(w, f)
       ELSE w

\* the join the frame is suspended on resumes once every promise has settled
\* (Promise.allSettled, lines 153 and 358)
resumeJoin(w, f) ==
    LET fr == w.frames[f]
    IN IF ~AllSettled(fr.run) THEN w
       ELSE IF fr.pc = "join" THEN batchSettled(w, f)
       ELSE IF fr.pc = "retry" THEN retryChunkSettled(w, f)
       ELSE w

\* lines 260-262 without the test of proxyConfig
reportProxyFailure_OnDirectPath(w, t) == [w EXCEPT !.proxyReports[t] = @ + 1]

\* lines 260-262: the proxy the run was given (line 165) is reported, if any
reportProxyFailure(w, t) ==
    IF t \in proxied THEN [w EXCEPT !.proxyReports[t] = @ + 1] ELSE w

\* the fetch of run p of frame f settles
fetchSettles(w, f, p, delivered) ==
    LET r == w.frames[f].run[p]
        r1 == IF delivered THEN attemptSucceeded(r) ELSE attemptFailed(r)
        w0 == [w EXCEPT !.frames[f].run[p] = r1]
        wm == IF Settled(r1) THEN updatePerformanceMetrics(w0) ELSE w0
        w1 == IF r1.st = "failed"
              THEN reportProxyFailure([wm EXCEPT !.exhausted[r.id] =
                                                     IF trace = "attempts" THEN @ + 1 ELSE @], r.id)
              ELSE wm
        w2 == IF audit /\ w.frames[f].pc # "retry" /\ Settled(r1)
              THEN [w1 EXCEPT !.outcome[r.id] = r1.st]
              ELSE w1
    IN resumeJoin(w2, f)

\* line 274 has waited: the loop issues the next fetch (line 199)
backoffOver(w, f, p) ==
    LET r == w.frames[f].run[p]
        w1 == [w EXCEPT !.frames[f].run[p].st = "fetch"]
    IN IF w.frames[f].pc = "retry"
       THEN [w1 EXCEPT !.issuedR[r.id] = IF audit THEN @ + 1 ELSE @]
       ELSE [w1 EXCEPT !.issuedP[r.id] = IF audit THEN @ + 1 ELSE @]

\* line 354 has waited: the retry run calls executeRequest (line 355)
retryLaunch(w, f, p) ==
    LET r == w.frames[f].run[p]
    IN IF r.id \in throwing
       THEN resumeJoin([w EXCEPT !.frames[f].run[p].st = "failed"], f)
       ELSE [w EXCEPT !.frames[f].run[p].st = "fetch",
                      !.issuedR[r.id] = IF audit THEN @ + 1 ELSE @]

\* ------------------------------------------------------------ start, stop
Accepted(w) == Cardinality({f \in FrameIds : w.frames[f].pc # "none"})

\* start() without the running guard of lines 81-84
start_Unguarded(w) ==
    LET f == Accepted(w) + 1
    IN IF f \in FrameIds
       THEN processOptimizedBatches(
                [w EXCEPT !.isRunning = TRUE, !.frames[f].pc = "starting"], f)
       ELSE w

\* lines 80-103
start(w) ==
    IF w.isRunning
    THEN w
    ELSE LET f == Accepted(w) + 1
         IN processOptimizedBatches(
                [w EXCEPT !.isRunning = TRUE, !.frames[f].pc = "starting"], f)

\* stop() flipping the running flag instead of clearing it
stop_Toggle(w) ==
    LET w1 == [w EXCEPT !.isRunning = ~@]
    IN IF w.currentBatch # {} THEN [w1 EXCEPT !.currentBatch = {}] ELSE w1

\* lines 453-462
stop(w) ==
    LET w1 == [w EXCEPT !.isRunning = FALSE]
    IN IF w.currentBatch # {}
       THEN [w1 EXCEPT !.frames = [f \in FrameIds |->
                           [w.frames[f] EXCEPT !.run = [p \in 1 .. Len(@) |->
                               IF <<f, p>> \in w.currentBatch
                               THEN [@[p] EXCEPT !.aborted = TRUE]
                               ELSE @[p]]]],
                       !.currentBatch = {}]
       ELSE w1

\* history of a stop() call made in state w, recorded in the state after it
noteStop(w, after) ==
    LET primary == {f \in FrameIds : w.frames[f].pc \in {"stagger", "join", "gap"}}
        mid == {f \in FrameIds : /\ w.frames[f].pc \in {"stagger", "join"}
                                 /\ \E p \in 1 .. Len(w.frames[f].run) :
                                        InFlight(w.frames[f].run[p])}
        a1 == [after EXCEPT !.stoppedInPrimary = @ \/ (primary # {})]
    IN IF audit /\ ~w.stopMid.set /\ mid # {}
       THEN LET f == CHOOSE g \in mid : TRUE
            IN [a1 EXCEPT !.stopMid =
                   [set |-> TRUE, f |-> f, bi |-> w.frames[f].batchIndex,
                    inflight |-> {p \in 1 .. Len(w.frames[f].run) :
                                     InFlight(w.frames[f].run[p])},
                    verdict |-> "pending"]]
       ELSE a1

\* ----------------------------------------------------------- ProxyManager
\* the names of the entries of ProxyManager.proxySources
ProxySources == {"Geonode Premium", "ProxyScrape HTTP", "ProxyList Download", "OpenProxy Fast"}

\* the two callers of ProxyManager.initialize(): the application's startup
\* (initializeProxyManager) and the timer set when the module is loaded
Callers == {"app", "timer"}

NotCalled == [pc |-> "idle", pending |-> {}, found |-> FALSE]

\* the static fields of the class before any call: initialized is false, the
\* 'global' list of proxies is not set; loads and validations count the runs
\* of loadAllProxies and of concurrentProxyTest that have been started
NotInitialized ==
    [initialized |-> FALSE, proxies |-> "unset", loads |-> 0, validations |-> 0,
     calls |-> [c \in Callers |-> NotCalled]]

\* initialize() up to its first await: the guard of line 49, then
\* loadAllProxies() sends one request to every source
initialize(m, c) ==
    IF m.initialized
    THEN [m EXCEPT !.calls[c].pc = "returned"]
    ELSE [m EXCEPT !.calls[c] = [pc |-> "loading", pending |-> ProxySources,
                                 found |-> FALSE],
                   !.loads = @ + 1]

\* lines 60-61: the end of initialize()
initialized(m, c) ==
    [m EXCEPT !.initialized = TRUE, !.calls[c].pc = "returned"]

\* fastProxyValidation() up to its first await: it returns at once when the
\* list is empty, else it starts testing
fastProxyValidation(m, c) ==
    IF m.proxies = "empty"
    THEN initialized(m, c)
    ELSE [m EXCEPT !.calls[c].pc = "validating", !.validations = @ + 1]

\* the request to source s of call c settles: gave says whether it resolved
\* with proxies (a rejection is caught and counts as an empty list); after the
\* last one loadAllProxies stores the list and initialize() goes on
sourceSettles(m, c, s, gave) ==
    LET m1 == [m EXCEPT !.calls[c].pending = @ \ {s},
                        !.calls[c].found = @ \/ gave]
    IN IF m1.calls[c].pending = {}
       THEN fastProxyValidation(
                [m1 EXCEPT !.proxies = IF m1.calls[c].found THEN "some" ELSE "empty"], c)
       ELSE m1

\* ------------------------------------------------------------------ Init
\* the state of a session after its constructor (lines 7-32)
\* lists of summaries that sessions finalized earlier have left in localStorage
StoredBefore == {[i \in 1 .. n |-> i + k] : n \in {0, 1, SessionsKept - 1, SessionsKept}, k \in {0, 3}}

\* the environment of a session whose localStorage is empty
Environment ==
    /\ stored = <<>>
    /\ proxied = {}
    /\ trace = "none"

Constructed ==
    /\ isRunning = FALSE
    /\ currentBatch = {}
    /\ retryQueue = <<>>
    /\ retryCount = [t \in Tasks |-> 0]
    /\ stats = [sent |-> 0, successful |-> 0, failed |-> 0,
                total |-> config.impressions, batchCount |-> 0]
    /\ successRate = <<100, 1>>
    /\ frames = [f \in FrameIds |-> NoFrame]
    /\ saved = 0
    /\ dispatched = <<>>
    /\ proxyReports = [t \in Tasks |-> 0]
    /\ exhausted = [t \in Tasks |-> 0]
    /\ lastAttempt = NoAttempt
    /\ lastWait = NoWait
    /\ backoffs = [t \in Tasks |-> NoBackoff]
    /\ enqueued = [t \in Tasks |-> 0]
    /\ outcome = [t \in Tasks |-> "none"]
    /\ tally = [t \in Tasks |-> "none"]
    /\ issuedP = [t \in Tasks |-> 0]
    /\ issuedR = [t \in Tasks |-> 0]
    /\ startCalls = 0
    /\ stopCalls = 0
    /\ stoppedInPrimary = FALSE
    /\ stopMid = NoStopMid
    /\ proxyManager = NotInitialized
    /\ app = NotStarted

\* a session used through its API in any way: start() and stop() at any time
Init ==
    /\ config \in [impressions : 1 .. MaxImpressions, delay : Delays,
                   proxyQuality : Tiers, maxRetries : 1 .. MaxRetries,
                   enableJitter : BOOLEAN]
    /\ origin = "any"
    /\ audit = FALSE
    /\ throwing = {}
    /\ sink = "ok"
    /\ Environment
    /\ Constructed

\* an audited session: start() is accepted once, the history is recorded
InitOnce ==
    /\ config \in [impressions : 1 .. MaxImpressions, delay : Delays,
                   proxyQuality : Tiers, maxRetries : 1 .. MaxRetries + 1,
                   enableJitter : BOOLEAN]
    /\ origin \in {"any", "all500", "all404"}
    /\ audit = TRUE
    /\ throwing = {}
    /\ sink = "ok"
    /\ Environment
    /\ Constructed

\* an audited session with faults injected: provider calls that throw for some
\* tasks, a localStorage that throws
InitFaults ==
    /\ config \in [impressions : 1 .. MaxImpressions, delay : Delays,
                   proxyQuality : Tiers, maxRetries : 1 .. MaxRetries,
                   enableJitter : BOOLEAN]
    /\ origin = "any"
    /\ audit = TRUE
    /\ throwing \in SUBSET Tasks
    /\ sink \in {"ok", "throws"}
    /\ Environment
    /\ Constructed

\* a session built from any delay and tier of the planner's input sets
InitPlanner ==
    /\ config \in [impressions : 1 .. MaxImpressions, delay : PlannerDelays,
                   proxyQuality : PlannerTiers, maxRetries : 1 .. MaxRetries,
                   enableJitter : BOOLEAN]
    /\ origin = "any"
    /\ audit = FALSE
    /\ throwing = {}
    /\ sink = "ok"
    /\ Environment
    /\ Constructed

\* --------------------------------------------------------------- actions
\* the application calls session.start()
StartCall ==
    /\ startCalls < MaxStartCalls
    /\ Commit([start(World) EXCEPT !.startCalls = @ + 1])

\* the application calls session.stop()
StopCall ==
    /\ stopCalls < MaxStopCalls
    /\ Commit([noteStop(World, stop(World)) EXCEPT !.stopCalls = @ + 1])

\* the draws of Math.random() an action goes through: the waits are part of
\* the state only where they are recorded, elsewhere one draw stands for all
BackoffDraws == IF trace = "waits" THEN BackoffJitters ELSE {0}
JitterDraws  == IF trace = "waits" THEN JitterFactors ELSE {1000}

\* history: what the settling fetch of run p makes of its run (a rejection is
\* recorded with the status NetworkError)
recordAttempt(w, f, p, status) ==
    LET r == w.frames[f].run[p]
        r1 == IF Delivered(status) THEN attemptSucceeded(r) ELSE attemptFailed(r)
    IN IF trace = "attempts"
       THEN [w EXCEPT !.lastAttempt = [task |-> r.id, status |-> status,
                                       attempt |-> r.attempt + 1, st |-> r1.st]]
       ELSE w

Answers == CASE origin = "all500" -> {500}
             [] origin = "all404" -> {404}
             [] OTHER -> Statuses

\* a fetch resolves with a response, or rejects with a network error
Response(f, p) ==
    /\ frames[f].pc \in {"stagger", "join", "retry"}
    /\ p \in 1 .. Len(frames[f].run)
    /\ frames[f].run[p].st = "fetch"
    /\ ~frames[f].run[p].aborted
    /\ \E status \in Answers, jitter \in BackoffDraws :
           Commit(fetchSettles(recordBackoff(recordAttempt(World, f, p, status),
                                             f, p, Delivered(status), jitter),
                               f, p, Delivered(status)))

\* a fetch whose signal is aborted rejects with an AbortError
Aborted(f, p) ==
    /\ frames[f].pc \in {"stagger", "join", "retry"}
    /\ p \in 1 .. Len(frames[f].run)
    /\ frames[f].run[p].st = "fetch"
    /\ frames[f].run[p].aborted
    /\ \E jitter \in BackoffDraws :
           Commit(fetchSettles(recordBackoff(recordAttempt(World, f, p, NetworkError),
                                             f, p, FALSE, jitter),
                               f, p, FALSE))

\* the backoff timer of a run fires
BackoffTimer(f, p) ==
    /\ frames[f].pc \in {"stagger", "join", "retry"}
    /\ p \in 1 .. Len(frames[f].run)
    /\ frames[f].run[p].st = "backoff"
    /\ Commit(backoffOver(World, f, p))

\* the stagger timer of processBatch fires (line 147)
StaggerTimer(f) ==
    /\ frames[f].pc = "stagger"
    /\ Commit(processBatch(World, f))

\* the timer of adaptiveDelay fires (line 398) after the wait computed for
\* some jitter factor
AdaptiveDelayTimer(f) ==
    /\ frames[f].pc = "gap"
    /\ \E jitter \in JitterDraws :
           Commit(nextBatch([World EXCEPT
                                !.lastWait =
                                    IF trace = "waits"
                                    THEN [batchIndex |-> frames[f].batchIndex,
                                          sent |-> stats.sent,
                                          adapted |-> adaptedDelay(World, frames[f].batchIndex),
                                          micros |-> adaptiveDelay(World, frames[f].batchIndex, jitter)]
                                    ELSE @,
                                !.frames[f].batchIndex = @ + 1], f))

\* the stagger timer of a retry run fires (line 354); timers fire in index order
RetryStaggerTimer(f, p) ==
    /\ frames[f].pc = "retry"
    /\ p \in 1 .. Len(frames[f].run)
    /\ frames[f].run[p].st = "wait"
    /\ \A q \in 1 .. (p - 1) : frames[f].run[q].st # "wait"
    /\ Commit(retryLaunch(World, f, p))

\* the 500 ms timer between retry chunks fires (line 370)
RetryGapTimer(f) ==
    /\ frames[f].pc = "retryGap"
    /\ Commit(retryLoop([World EXCEPT !.frames[f].ri = @ + 1], f))

Positions == 1 .. 10

Next ==
    \/ StartCall
    \/ StopCall
    \/ \E f \in FrameIds, p \in Positions : Response(f, p)
    \/ \E f \in FrameIds, p \in Positions : Aborted(f, p)
    \/ \E f \in FrameIds, p \in Positions : BackoffTimer(f, p)
    \/ \E f \in FrameIds : StaggerTimer(f)
    \/ \E f \in FrameIds : AdaptiveDelayTimer(f)
    \/ \E f \in FrameIds, p \in Positions : RetryStaggerTimer(f, p)
    \/ \E f \in FrameIds : RetryGapTimer(f)

Spec == Init /\ [][Next]_vars

\* start() is not called on a session that has ended (TrafficSenderApp builds a
\* new session for every run and starts it once)
StartOnce ==
    /\ Accepted(World) = 0 \/ isRunning
    /\ StartCall

NextOnce ==
    \/ StartOnce
    \/ StopCall
    \/ \E f \in FrameIds, p \in Positions : Response(f, p)
    \/ \E f \in FrameIds, p \in Positions : Aborted(f, p)
    \/ \E f \in FrameIds, p \in Positions : BackoffTimer(f, p)
    \/ \E f \in FrameIds : StaggerTimer(f)
    \/ \E f \in FrameIds : AdaptiveDelayTimer(f)
    \/ \E f \in FrameIds, p \in Positions : RetryStaggerTimer(f, p)
    \/ \E f \in FrameIds : RetryGapTimer(f)

SpecOnce == InitOnce /\ [][NextOnce]_vars

SpecFaults == InitFaults /\ [][NextOnce]_vars

\* a session that finds summaries of earlier sessions in localStorage
InitStore ==
    /\ config \in [impressions : 1 .. MaxImpressions, delay : Delays,
                   proxyQuality : Tiers, maxRetries : 1 .. MaxRetries,
                   enableJitter : BOOLEAN]
    /\ origin = "any"
    /\ audit = FALSE
    /\ throwing = {}
    /\ sink = "ok"
    /\ stored \in StoredBefore
    /\ proxied = {}
    /\ trace = "none"
    /\ Constructed

SpecStore == InitStore /\ [][NextOnce]_vars

\* an audited session whose executor attempts are recorded, with a proxy
\* provider that hands a proxy to the runs of some tasks and none to the others
InitExecutor ==
    /\ config \in [impressions : 1 .. MaxImpressions, delay : Delays,
                   proxyQuality : Tiers, maxRetries : 1 .. MaxRetries,
                   enableJitter : BOOLEAN]
    /\ origin = "any"
    /\ audit = TRUE
    /\ throwing = {}
    /\ sink = "ok"
    /\ stored = <<>>
    /\ proxied \in SUBSET Tasks
    /\ trace = "attempts"
    /\ Constructed

SpecExecutor == InitExecutor /\ [][NextOnce]_vars

\* a session started once and left to run: no stop(), so no fetch is aborted
NextUninterrupted ==
    \/ StartOnce
    \/ \E f \in FrameIds, p \in Positions : Response(f, p)
    \/ \E f \in FrameIds, p \in Positions : BackoffTimer(f, p)
    \/ \E f \in FrameIds : StaggerTimer(f)
    \/ \E f \in FrameIds : AdaptiveDelayTimer(f)
    \/ \E f \in FrameIds, p \in Positions : RetryStaggerTimer(f, p)
    \/ \E f \in FrameIds : RetryGapTimer(f)

SpecPlanner == InitPlanner /\ [][NextUninterrupted]_vars

\* audited sessions left to run: the small ones against any destination, and
\* the long one (LongImpressions tasks, width 1) against a destination that
\* answers every request with 404
InitDispatch ==
    /\ \/ /\ config \in [impressions : 1 .. MaxImpressions + 1, delay : Delays,
                          proxyQuality : Tiers, maxRetries : 1 .. MaxRetries,
                          enableJitter : BOOLEAN]
          /\ origin = "any"
       \/ /\ config \in [impressions : {LongImpressions}, delay : {1000},
                          proxyQuality : Tiers, maxRetries : {1},
                          enableJitter : BOOLEAN]
          /\ origin = "all404"
    /\ audit = TRUE
    /\ throwing = {}
    /\ sink = "ok"
    /\ Environment
    /\ Constructed

SpecDispatch == InitDispatch /\ [][NextUninterrupted]_vars

\* long sessions left to run against a destination that answers every request
\* with 404, the waits between their batches recorded; the delays are the least
\* one the application's form accepts and the default
InitPaced ==
    /\ config \in [impressions : {LongImpressions}, delay : {200, 1000},
                    proxyQuality : Tiers, maxRetries : {1},
                    enableJitter : BOOLEAN]
    /\ origin = "all404"
    /\ audit = FALSE
    /\ throwing = {}
    /\ sink = "ok"
    /\ stored = <<>>
    /\ proxied = {}
    /\ trace = "waits"
    /\ Constructed

\* start() is called at any time, stop() is not
NextPaced ==
    \/ StartCall
    \/ \E f \in FrameIds, p \in Positions : Response(f, p)
    \/ \E f \in FrameIds : StaggerTimer(f)
    \/ \E f \in FrameIds : AdaptiveDelayTimer(f)

SpecPaced == InitPaced /\ [][NextPaced]_vars

\* sessions left to run against a destination that answers every request with
\* 500, with three and four attempts per run, the backoff waits recorded
InitBackoff ==
    /\ config \in [impressions : 1 .. MaxImpressions, delay : Delays,
                   proxyQuality : Tiers, maxRetries : MaxRetries + 1 .. MaxRetries + 2,
                   enableJitter : BOOLEAN]
    /\ origin = "all500"
    /\ audit = FALSE
    /\ throwing = {}
    /\ sink = "ok"
    /\ stored = <<>>
    /\ proxied = {}
    /\ trace = "waits"
    /\ Constructed

SpecBackoff == InitBackoff /\ [][NextUninterrupted]_vars

\* the steps the event loop takes by itself: a pending fetch settles, a timer
\* set by delay() fires
EventLoop ==
    \/ \E f \in FrameIds, p \in Positions : Response(f, p)
    \/ \E f \in FrameIds, p \in Positions : Aborted(f, p)
    \/ \E f \in FrameIds, p \in Positions : BackoffTimer(f, p)
    \/ \E f \in FrameIds : StaggerTimer(f)
    \/ \E f \in FrameIds : AdaptiveDelayTimer(f)
    \/ \E f \in FrameIds, p \in Positions : RetryStaggerTimer(f, p)
    \/ \E f \in FrameIds : RetryGapTimer(f)

\* ------------------------------------------ ProxyManager.initialize calls
\* caller c calls ProxyManager.initialize(); the timer does so only if
\* initialized is false (line 363), which is the guard of line 49 again
InitializeCall(c) ==
    /\ proxyManager.calls[c].pc = "idle"
    /\ proxyManager' = initialize(proxyManager, c)
    /\ UNCHANGED <<sessionVars, app>>

\* the request that call c sent to source s settles
SourceSettles(c, s) ==
    /\ proxyManager.calls[c].pc = "loading"
    /\ s \in proxyManager.calls[c].pending
    /\ \E gave \in BOOLEAN :
           proxyManager' = sourceSettles(proxyManager, c, s, gave)
    /\ UNCHANGED <<sessionVars, app>>

\* the tests started by call c are over: fastProxyValidation returns
ValidationDone(c) ==
    /\ proxyManager.calls[c].pc = "validating"
    /\ proxyManager' = initialized(proxyManager, c)
    /\ UNCHANGED <<sessionVars, app>>

NextInitialize ==
    \/ \E c \in Callers : InitializeCall(c)
    \/ \E c \in Callers, s \in ProxySources : SourceSettles(c, s)
    \/ \E c \in Callers : ValidationDone(c)

\* the page is loaded: the application is constructed and the timer is set;
\* no session is started
InitInitialize ==
    /\ config = [impressions |-> 1, delay |-> 1000, proxyQuality |-> "premium",
                 maxRetries |-> 1, enableJitter |-> FALSE]
    /\ origin = "any"
    /\ audit = FALSE
    /\ throwing = {}
    /\ sink = "ok"
    /\ Environment
    /\ Constructed

SpecInitialize == InitInitialize /\ [][NextInitialize]_vars

\* --------------------------------------------------------- TrafficSenderApp
\* new TrafficSession(formData) (part_001 line 144): the fields of the new
\* session are those its constructor sets; the summaries in localStorage stay.
\* The session replaces the one the application held before
newSession(w) ==
    [w EXCEPT !.isRunning = FALSE,
              !.currentBatch = {},
              !.retryQueue = <<>>,
              !.retryCount = [t \in Tasks |-> 0],
              !.stats = [sent |-> 0, successful |-> 0, failed |-> 0,
                         total |-> config.impressions, batchCount |-> 0],
              !.successRate = <<100, 1>>,
              !.frames = [f \in FrameIds |-> NoFrame],
              !.saved = 0,
              !.dispatched = <<>>,
              !.proxyReports = [t \in Tasks |-> 0],
              !.exhausted = [t \in Tasks |-> 0],
              !.lastAttempt = NoAttempt,
              !.lastWait = NoWait,
              !.backoffs = [t \in Tasks |-> NoBackoff],
              !.enqueued = [t \in Tasks |-> 0],
              !.outcome = [t \in Tasks |-> "none"],
              !.tally = [t \in Tasks |-> "none"],
              !.issuedP = [t \in Tasks |-> 0],
              !.issuedR = [t \in Tasks |-> 0],
              !.startCalls = 0,
              !.stopCalls = 0,
              !.stoppedInPrimary = FALSE,
              !.stopMid = NoStopMid]

\* no start() call of the session at hand is still at work
Quiet == \A f \in FrameIds : frames[f].pc \in {"none", "done", "rejected"}

\* part_001 lines 143-148: the session is created, isRunning is set and
\* start() is called
createSession ==
    CommitApp([start(newSession(World)) EXCEPT !.startCalls = @ + 1],
              [app EXCEPT !.currentSession = TRUE, !.isRunning = TRUE,
                          !.pc = "awaiting", !.stopped = FALSE,
                          !.lastCall = "started", !.sessions = @ + 1])

\* the user calls startTraffic(): valid is the verdict of validateForm, ready
\* says whether ProxyManager.activeProxies holds a proxy. While proxies are
\* refreshed the start button is disabled (line 318); a session is replaced
\* only after its work has drained, and MaxSessions sessions are created at most
StartTraffic ==
    /\ app.pc # "refreshing"
    /\ app.isRunning \/ (Quiet /\ app.sessions < MaxSessions)
    /\ \E valid \in BOOLEAN, ready \in BOOLEAN :
           IF app.isRunning
           THEN /\ app' = [app EXCEPT !.lastCall = "refused"]
                /\ UNCHANGED <<sessionVars, proxyManager>>
           ELSE IF ~valid
           THEN /\ app' = [app EXCEPT !.lastCall = "invalid"]
                /\ UNCHANGED <<sessionVars, proxyManager>>
           ELSE IF ~ready
           THEN /\ app' = [app EXCEPT !.pc = "refreshing", !.lastCall = "refreshing"]
                /\ UNCHANGED <<sessionVars, proxyManager>>
           ELSE createSession

\* ProxyManager.refreshProxies() settles (line 140): resolved, startTraffic()
\* goes on; rejected, its catch block runs
RefreshSettles ==
    /\ app.pc = "refreshing"
    /\ \/ createSession
       \/ /\ app' = [app EXCEPT !.pc = "failed", !.isRunning = FALSE,
                                 !.lastCall = "failed"]
          /\ UNCHANGED <<sessionVars, proxyManager>>

\* the user calls stopTraffic() (lines 160-185); it returns at once unless
\* isRunning is set and a session is held
StopTraffic ==
    /\ app.isRunning /\ app.currentSession
    /\ CommitApp([noteStop(World, stop(World)) EXCEPT !.stopCalls = @ + 1],
                 [app EXCEPT !.isRunning = FALSE, !.currentSession = FALSE,
                             !.stopped = TRUE])

NextApp ==
    \/ StartTraffic
    \/ RefreshSettles
    \/ StopTraffic
    \/ \E f \in FrameIds, p \in Positions : Response(f, p)
    \/ \E f \in FrameIds, p \in Positions : Aborted(f, p)
    \/ \E f \in FrameIds, p \in Positions : BackoffTimer(f, p)
    \/ \E f \in FrameIds : StaggerTimer(f)
    \/ \E f \in FrameIds : AdaptiveDelayTimer(f)
    \/ \E f \in FrameIds, p \in Positions : RetryStaggerTimer(f, p)
    \/ \E f \in FrameIds : RetryGapTimer(f)

\* the application after its constructor; the sessions it builds are of the
\* sizes of the other specifications, below the least size its form accepts
InitApp ==
    /\ config \in [impressions : 1 .. MaxImpressions, delay : Delays,
                    proxyQuality : Tiers, maxRetries : 1 .. MaxRetries,
                    enableJitter : BOOLEAN]
    /\ origin = "any"
    /\ audit = FALSE
    /\ throwing = {}
    /\ sink = "ok"
    /\ Environment
    /\ Constructed

SpecApp == InitApp /\ [][NextApp]_vars

\* a session started once and stopped at any time, every pending fetch
\* eventually settling and every timer firing
SpecLive == Init /\ [][NextOnce]_vars /\ WF_vars(EventLoop)

\* ------------------------------------------------------------ vocabulary
Active(f) == frames[f].pc \notin {"none", "done", "rejected"}

\* every accepted start() has run to its end, finalization included
Finished ==
    /\ \E f \in FrameIds : frames[f].pc = "done"
    /\ \A f \in FrameIds : ~Active(f)

\* frame f has a primary batch with launched tasks that have not settled
BatchInFlight(f) ==
    /\ frames[f].pc \in {"stagger", "join"}
    /\ \E p \in 1 .. Len(frames[f].run) : InFlight(frames[f].run[p])

\* this step is a stop() call
IsStopCall == stopCalls' = stopCalls + 1

\* this step is a start() call
IsStartCall == startCalls' = startCalls + 1

\* this step issues a request attempt for a task of the retry pass
RetryAttemptIssued ==
    \E f \in FrameIds :
        /\ frames[f].pc = "retry" /\ frames'[f].pc = "retry"
        /\ Len(frames[f].run) = Len(frames'[f].run)
        /\ \E p \in 1 .. Len(frames[f].run) :
               /\ frames[f].run[p].st \in {"wait", "backoff"}
               /\ frames'[f].run[p].st = "fetch"

\* this step launches a task (primary batch) or schedules one (retry chunk)
TaskDispatched ==
    \E f \in FrameIds :
        /\ frames'[f].pc \in {"stagger", "join", "retry"}
        /\ \/ Len(frames'[f].run) > Len(frames[f].run)
           \/ frames[f].pc \notin {"stagger", "join", "retry"}

\* the batch a task belongs to
BatchOf(t) == (t - 1) \div concurrency

\* the fields of the session object
Session(w) ==
    [isRunning |-> w.isRunning, currentBatch |-> w.currentBatch,
     retryQueue |-> w.retryQueue, retryCount |-> w.retryCount, stats |-> w.stats,
     successRate |-> w.successRate, frames |-> w.frames, saved |-> w.saved]

\* ----------------------------------------------------------------- claims

\* C1: after start() has finished (primary pass, retry pass, finalization),
\* stats.sent = stats.successful + stats.failed.  Stated as the claim makes it;
\* the retry pass of lines 374-375 adds to successful and failed but not to sent.
C1_SentIsSuccessfulPlusFailed ==
    Finished => stats.sent = stats.successful + stats.failed

\* C2: for every task, the request attempts issued for it over the primary pass
\* and the retry pass together never exceed maxRetries.  Stated as the claim
\* makes it; a task that failed its primary run is run again with a full budget.
C2_AttemptsWithinBudget ==
    \A t \in Tasks : issuedP[t] + issuedR[t] <= config.maxRetries

\* C3: if every attempt answers HTTP 500 and maxRetries = 3, every task uses
\* exactly 3 attempts in the primary pass, none is resubmitted in the retry pass
\* and at completion stats.failed = stats.total.  Stated as the claim makes it.
C3_All500Scenario ==
    (origin = "all500" /\ config.maxRetries = 3 /\ stopCalls = 0) =>
        /\ \A t \in Tasks : issuedR[t] = 0
        /\ Finished => /\ \A t \in Tasks : issuedP[t] = 3
                       /\ stats.failed = stats.total

\* C4: whenever stop() is called while the current batch has launched tasks that
\* have not settled, the cancellation token of every such task is aborted.
\* Stated as the claim makes it; during the stagger of lines 145-148 the
\* controllers are not yet in this.currentBatch (line 151).
C4_StopAbortsInFlight ==
    [][IsStopCall =>
          \A f \in FrameIds :
              BatchInFlight(f) =>
                  \A p \in 1 .. Len(frames[f].run) :
                      InFlight(frames[f].run[p]) => frames'[f].run[p].aborted]_vars

\* C5: if stop() is invoked mid-batch, no task of a later batch is dispatched
\* afterwards, the tasks in flight at the stop are counted as failed, and the
\* session finishes with stats.sent < stats.total.  Stated as the claim makes it.
C5_StopMidBatch ==
    /\ [][stopMid.set =>
             \A t \in Tasks : BatchOf(t) > stopMid.bi => issuedP'[t] = issuedP[t]]_vars
    /\ [](stopMid.set => stopMid.verdict # "someOk")
    /\ []((stopMid.set /\ Finished) => stats.sent < stats.total)

\* C6: if stop() is called during the primary pass, no task of the retry queue
\* is executed (no request attempt is issued for it) after the stop.  Stated as
\* the claim makes it.
C6_NoRetryAfterStop ==
    [][stoppedInPrimary => ~RetryAttemptIssued]_vars

\* C7: at no time are tasks of two different batches in flight simultaneously,
\* under every interleaving of start() and stop() calls.  Stated as the claim
\* makes it.
C7_OneBatchInFlight ==
    Cardinality({f \in FrameIds : BatchInFlight(f)}) <= 1

\* C8: once the session has reached Completed or Stopped, no start() or stop()
\* call makes it Running again or dispatches another task.  Stated as the claim
\* makes it.
C8_NoRestart ==
    [][(Accepted(World) >= 1 /\ ~isRunning) => (~isRunning' /\ ~TaskDispatched)]_vars

\* C9: a start() call made while the session is running changes no session
\* state (task queue, retry queue, stats, running flag, frames), dispatches no
\* task and triggers no finalization.
C9_StartWhileRunningIsNoOp ==
    [][(IsStartCall /\ isRunning) =>
          /\ Session(World)' = Session(World)
          /\ ~TaskDispatched]_vars

\* C9 witness: a start() call has been turned away while a run was under way
C9_Witness ==
    /\ startCalls > Accepted(World)
    /\ isRunning
    /\ \E f \in FrameIds : BatchInFlight(f)

\* C10: in every reachable state, calling stop() twice in a row leaves the
\* session as calling it once does: not running, no current-batch tokens held.
C10_StopIdempotent ==
    LET once == stop(World)
        twice == stop(once)
    IN /\ Session(twice) = Session(once)
       /\ ~once.isRunning
       /\ once.currentBatch = {}

\* C10 witness: stop() has been called twice, the first call having aborted
\* the tokens of a batch in flight
C10_Witness ==
    /\ stopCalls = 2
    /\ ~isRunning
    /\ currentBatch = {}
    /\ \E f \in FrameIds : \E p \in 1 .. Len(frames[f].run) : frames[f].run[p].aborted

\* C11: in every reachable state stats.sent <= stats.total, and when start() has
\* finished without stop() having been called, stats.sent = stats.total.  Stated
\* as the claim makes it; a second start() dispatches the queue again and
\* processBatchResults counts every task in sent once more.
C11_SentWithinTotal ==
    /\ stats.sent <= stats.total
    /\ (Finished /\ stopCalls = 0) => stats.sent = stats.total

\* this step ran the aggregation of a primary batch (processBatchResults)
BatchAggregated == stats.batchCount' = stats.batchCount + 1

\* C12: during the primary pass, after the aggregation step of every batch,
\* stats.sent = stats.successful + stats.failed.  Stated as the claim makes it;
\* the counters a second start() builds on carry the retry pass's additions.
C12_BalancedAfterEveryBatch ==
    [][BatchAggregated => stats.sent' = stats.successful' + stats.failed']_vars

\* C13: in every reachable state each task's retry counter is <= maxRetries,
\* and over the whole session no task is pushed on the retry queue more than
\* maxRetries times.  Stated as the claim makes it; line 303 increments the
\* counter before line 304 compares it, once per primary run of the task.
C13_RetryCounterBounded ==
    \A t \in Tasks : /\ retryCount[t] <= config.maxRetries
                     /\ enqueued[t] <= config.maxRetries

\* C14: if every request returns HTTP 404 (and the run is not stopped), each
\* task is classified as a success after a single attempt, the retry queue
\* stays empty, and at completion stats.successful = stats.total and
\* stats.failed = 0.
C14_All404Scenario ==
    (origin = "all404" /\ stopCalls = 0) =>
        /\ \A t \in Tasks : issuedP[t] <= 1 /\ issuedR[t] = 0 /\ enqueued[t] = 0
        /\ \A f \in FrameIds : \A p \in 1 .. Len(frames[f].run) :
               frames[f].run[p].st \in {"fetch", "ok"}
        /\ retryQueue = <<>>
        /\ stats.failed = 0
        /\ Finished => /\ \A t \in Tasks : issuedP[t] = 1
                       /\ stats.successful = stats.total

\* C14 witness: a session of two tasks answered 404 throughout has completed
C14_Witness ==
    /\ origin = "all404" /\ stopCalls = 0
    /\ Finished
    /\ stats.total = 2 /\ stats.successful = 2 /\ stats.sent = 2

\* frame f has left the primary pass (retry pass, finalization, or rejected)
PastPrimary(f) == frames[f].pc \in {"retry", "retryGap", "done", "rejected"}

\* task t is part of a primary batch that has not been aggregated yet
InPrimaryRun(t) ==
    \E f \in FrameIds :
        /\ frames[f].pc \in {"stagger", "join"}
        /\ \E p \in 1 .. Len(frames[f].run) : frames[f].run[p].id = t

\* C15: no per-task failure (HTTP error, network error, cancellation, a
\* provider call throwing inside executeRequest) makes start() reject or keeps
\* later batches from being processed; each one becomes a failed outcome
\* counted in its batch: once the batch is aggregated the task is counted as
\* its run ended, sent counts exactly the aggregated tasks, and unless stop()
\* was called the primary pass ends only after every batch.
C15_TaskFailuresContained ==
    /\ sink = "ok" => \A f \in FrameIds : frames[f].pc # "rejected"
    /\ \A t \in Tasks :
           /\ (outcome[t] # "none" /\ ~InPrimaryRun(t)) => tally[t] = outcome[t]
           /\ tally[t] # "none" => tally[t] = outcome[t]
    /\ stats.sent = Cardinality({t \in Tasks : tally[t] # "none"})
    /\ stats.failed >= Cardinality({t \in Tasks : tally[t] = "failed"})
    /\ \A f \in FrameIds :
           (PastPrimary(f) /\ stopCalls = 0) =>
               /\ frames[f].batchIndex = totalBatches
               /\ \A t \in Tasks : tally[t] # "none"

\* C15 witness: the provider call threw for the task of the first batch, it was
\* counted as failed, and the second batch was processed and succeeded
C15_Witness ==
    /\ throwing = {1} /\ totalBatches = 2 /\ stopCalls = 0
    /\ tally[1] = "failed" /\ tally[2] = "ok"
    /\ Finished

\* C16: a failure of the persistence sink during finalization (reading or
\* writing the stored summaries throws) does not make start() fail, and the
\* session is left not running.  Stated as the claim makes it;
\* saveSessionResults (lines 483-496) has no handler and neither has
\* complete() nor start().
C16_SinkFailureContained ==
    /\ \A f \in FrameIds : frames[f].pc # "rejected"
    /\ \A f \in FrameIds : frames[f].pc \in {"done", "rejected"} => ~isRunning

\* this step runs complete() for frame f
Finalized(f) ==
    /\ frames[f].pc \notin {"done", "rejected"}
    /\ frames'[f].pc \in {"done", "rejected"}

\* some task of some start() call is launched or scheduled and has not settled
TaskPending(fs) ==
    \E f \in FrameIds : \E p \in 1 .. Len(fs[f].run) : ~Settled(fs[f].run[p])

\* C17: every start() call that passes the running guard is finalized exactly
\* once, after its primary pass and its retry pass have ended and while no task
\* is in flight, and the finalization hands exactly one summary to
\* saveSessionResults.  Stated as the claim makes it; the frames of two accepted
\* start() calls can overlap.
C17_OneFinalization ==
    /\ [](saved = Cardinality({f \in FrameIds : frames[f].pc \in {"done", "rejected"}}))
    /\ [][\A f \in FrameIds :
              Finalized(f) => /\ saved' = saved + 1
                              /\ ~TaskPending(frames')
                              /\ retryQueue' = <<>>]_vars

\* C18: if every request attempt eventually settles (and every timer fires), a
\* start() call that passed the running guard eventually reaches finalization,
\* whether or not stop() is called at any point.
C18_EventuallyFinalized ==
    \A f \in FrameIds : (frames[f].pc # "none") ~> (frames[f].pc = "done")

\* C18 witness: a run that was stopped while its batch was in flight has been
\* finalized
C18_Witness ==
    /\ stoppedInPrimary
    /\ \E f \in FrameIds : frames[f].pc = "done"
    /\ stats.sent >= 1

\* C19: the successRate returned by getStats() is 100 while sent = 0 and
\* otherwise equals successful / sent * 100 computed from the counters of the
\* same snapshot; after the first task has failed (sent = 1, successful = 0) it
\* is 0.  Stated as the claim makes it; the rate is written only by
\* updatePerformanceMetrics, which executeRequest calls before the batch is
\* aggregated.
C19_SuccessRateOfSnapshot ==
    LET s == getStats(World)
    IN s.performance.successRate =
           IF s.sent = 0 THEN <<100, 1>> ELSE Percent(s.successful, s.sent)

\* C20: for every integer delay (0, negative and very large values included)
\* and every tier (unknown tiers included) the concurrency planner returns a
\* width >= 1, so every batch the session cuts holds at least one task.
C20_WidthAtLeastOne ==
    /\ adjustConcurrency(config.delay, config.proxyQuality) >= 1
    /\ \A d \in PlannerDelays, t \in PlannerTiers : adjustConcurrency(d, t) >= 1
    /\ \A f \in FrameIds :
           frames[f].pc \in {"stagger", "join"} => Len(Batch(frames[f].batchIndex)) >= 1

\* C20 witness: a session built with a negative delay and an unknown tier has
\* a batch in flight
C20_Witness ==
    /\ config.delay < 0 /\ config.proxyQuality = "unknown"
    /\ \E f \in FrameIds : BatchInFlight(f)

\* The width the planner is to return for a positive delay:
\* min(cap, clamp(floor(1000 / delay), 1, 10))
PlannedWidth(delay, tier) ==
    LET cap == IF tier = "premium" THEN 8
               ELSE IF tier = "balanced" THEN 12
               ELSE IF tier = "aggressive" THEN 15
               ELSE 5
        floored == 1000 \div delay
        clamped == IF floored < 1 THEN 1 ELSE IF floored > 10 THEN 10 ELSE floored
    IN IF cap < clamped THEN cap ELSE clamped

\* adjustConcurrency against PlannedWidth over the delays 1 .. MaxPlannerDelay
\* and the positive planner delays, for every tier
PlannerTabulated ==
    \A d \in (1 .. MaxPlannerDelay) \cup {x \in PlannerDelays : x > 0}, t \in PlannerTiers :
        adjustConcurrency(d, t) = PlannedWidth(d, t)

\* C21: for every positive delay and every tier, adjustConcurrency sets the
\* width to min(cap, clamp(floor(1000 / delay), 1, 10)) with cap = 8 for
\* premium, 12 for balanced, 15 for aggressive and 5 for any other tier; the
\* session cuts its batches with that width.
C21_PlannedWidth ==
    /\ PlannerTabulated
    /\ config.delay > 0 =>
           /\ concurrency = PlannedWidth(config.delay, config.proxyQuality)
           /\ \A f \in FrameIds :
                  Len(frames[f].run) <= PlannedWidth(config.delay, config.proxyQuality)

\* C21 witness: a session with delay 1 and an unknown tier (width 5, the
\* default cap below the clamp's 10) has both of its tasks in flight in one batch
C21_Witness ==
    /\ config.delay = 1 /\ config.proxyQuality = "unknown"
    /\ \E f \in FrameIds : BatchInFlight(f) /\ Len(frames[f].run) = 2

\* the list is a run of consecutive serial numbers: the most recent summaries,
\* in the order they were persisted
MostRecentInOrder(list) == \A i \in 1 .. Len(list) - 1 : list[i + 1] = list[i] + 1

PrimaryInFlight ==
    {fp \in FrameIds \X Positions :
        /\ frames[fp[1]].pc \in {"stagger", "join"}
        /\ fp[2] <= Len(frames[fp[1]].run)
        /\ frames[fp[1]].run[fp[2]].st = "fetch"}

\* C23: during the primary pass the number of tasks in flight at any moment
\* never exceeds the width returned by the concurrency planner.  Stated as the
\* claim makes it.
C23_InFlightWithinWidth == Cardinality(PrimaryInFlight) <= concurrency

\* C24: without stop(), the primary pass dispatches the tasks in id order, in
\* ceil(total / width) batches that follow one another, each of exactly width
\* tasks except possibly the last, and dispatches every task exactly once;
\* with total = 100 and width = 1 these are 100 single-task batches, one at a
\* time.
C24_BatchesInIdOrder ==
    /\ \A i \in 1 .. Len(dispatched) :
           /\ dispatched[i][2] = i
           /\ dispatched[i][1] = (i - 1) \div concurrency
    /\ \A f \in FrameIds :
           /\ frames[f].pc \in {"stagger", "join"} =>
                  /\ stats.batchCount = frames[f].batchIndex
                  /\ \A i \in 1 .. Len(dispatched) :
                         dispatched[i][1] < frames[f].batchIndex => tally[dispatched[i][2]] # "none"
           /\ PastPrimary(f) =>
                  /\ Len(dispatched) = config.impressions
                  /\ stats.batchCount = CeilDiv(config.impressions, concurrency)
           /\ (config.impressions = LongImpressions /\ config.delay = 1000) =>
                  /\ Len(frames[f].run) <= 1
                  /\ PastPrimary(f) => stats.batchCount = LongImpressions

\* C24 witness: the long session has dispatched its 100 single-task batches
C24_Witness ==
    /\ config.impressions = LongImpressions /\ concurrency = 1
    /\ Finished
    /\ Len(dispatched) = LongImpressions /\ stats.batchCount = LongImpressions

\* C25: a batch is aggregated (counters updated, failed tasks put on the retry
\* queue) only after every task launched in it has reached a terminal outcome:
\* whenever a task has been counted or enqueued, all the tasks launched in
\* its batch have ended, and a task that failed while another of its batch
\* was still in flight has not been counted.
C25_AggregatedAfterAllSettled ==
    /\ \A i, j \in 1 .. Len(dispatched) :
           (/\ dispatched[i][1] = dispatched[j][1]
            /\ \/ tally[dispatched[i][2]] # "none"
               \/ enqueued[dispatched[i][2]] > 0)
           => outcome[dispatched[j][2]] # "none"
    /\ \A f \in FrameIds :
           frames[f].pc \in {"stagger", "join"} =>
               /\ stats.batchCount = frames[f].batchIndex
               /\ \A p \in 1 .. Len(frames[f].run) :
                      /\ tally[frames[f].run[p].id] = "none"
                      /\ enqueued[frames[f].run[p].id] = 0

\* C25 witness: the first task of a two-task batch has failed, the second is
\* still in flight, and nothing has been counted or enqueued
C25_Witness ==
    \E f \in FrameIds :
        /\ frames[f].pc = "join" /\ Len(frames[f].run) = 2
        /\ frames[f].run[1].st = "failed" /\ frames[f].run[2].st = "fetch"
        /\ outcome[1] = "failed" /\ tally[1] = "none"
        /\ stats.sent = 0 /\ retryQueue = <<>>

\* C26: in the executor a 403 or 404 response ends the run at once as a
\* success, and so does a 2xx or 3xx response; a 5xx response, any other 4xx
\* response or a network error uses up one attempt, after which the run backs
\* off and tries again while attempts remain and fails when none does; a run
\* that has succeeded issues no further request.
C26_ResponseClasses ==
    /\ [](lastAttempt.task # 0 =>
            LET status == lastAttempt.status
                accepted == status \in {403, 404} \/ (status >= 200 /\ status <= 399)
                refused == \/ status >= 500
                           \/ (status >= 400 /\ status <= 499 /\ status \notin {403, 404})
                           \/ status = NetworkError
            IN /\ accepted \/ refused
               /\ accepted => lastAttempt.st = "ok"
               /\ refused =>
                      /\ (lastAttempt.attempt < config.maxRetries) => (lastAttempt.st = "backoff")
                      /\ (lastAttempt.attempt = config.maxRetries) => (lastAttempt.st = "failed")
                      /\ lastAttempt.attempt <= config.maxRetries)
    /\ [][\A f \in FrameIds, p \in Positions :
              (/\ p <= Len(frames[f].run) /\ p <= Len(frames'[f].run)
               /\ frames'[f].pc = frames[f].pc
               /\ frames'[f].batchIndex = frames[f].batchIndex /\ frames'[f].ri = frames[f].ri)
              => /\ (frames[f].run[p].st = "ok") => (frames'[f].run[p].st = "ok")
                 /\ (frames[f].run[p].st = "fetch" /\ frames'[f].run[p].st = "backoff")
                    => (frames'[f].run[p].attempt = frames[f].run[p].attempt + 1)]_vars

\* C26 witness: a run whose first attempt was answered 500 and backed off has
\* had its second attempt answered 403 and has ended as a success
C26_Witness ==
    /\ lastAttempt.status = 403 /\ lastAttempt.attempt = 2 /\ lastAttempt.st = "ok"
    /\ \E f \in FrameIds, p \in Positions :
           /\ p <= Len(frames[f].run)
           /\ frames[f].run[p].id = lastAttempt.task /\ frames[f].run[p].st = "ok"
    /\ issuedP[lastAttempt.task] = 2

\* C27: one executor run issues at most maxRetries request attempts; when all
\* of them have failed it reports the failure to the proxy provider exactly
\* once if the run was given a proxy and never on the direct path, and the run
\* ends as failed; a run that ends in success reports nothing.  (A task has
\* one primary run and at most one retry run.)
C27_AttemptsAndProxyReports ==
    /\ [](/\ \A t \in Tasks :
               /\ issuedP[t] <= config.maxRetries /\ issuedR[t] <= config.maxRetries
               /\ proxyReports[t] = IF t \in proxied THEN exhausted[t] ELSE 0
               /\ exhausted[t] <= 2
               /\ exhausted[t] >= 1 => outcome[t] = "failed"
           /\ \A f \in FrameIds, p \in Positions :
                  p <= Len(frames[f].run) => frames[f].run[p].attempt < config.maxRetries)
    /\ [][\A t \in Tasks :
              /\ proxyReports'[t] # proxyReports[t] =>
                     /\ proxyReports'[t] = proxyReports[t] + 1
                     /\ t \in proxied
                     /\ lastAttempt'.task = t /\ lastAttempt'.st = "failed"
                     /\ lastAttempt'.attempt = config.maxRetries
              /\ (lastAttempt' # lastAttempt /\ lastAttempt'.task = t /\ lastAttempt'.st # "failed")
                     => (proxyReports'[t] = proxyReports[t])]_vars

\* C27 witness: a task that was given a proxy has used up its attempts in the
\* primary run and again in the retry run, with one report for each, while a
\* task on the direct path has failed without a report
C27_Witness ==
    /\ config.maxRetries = 2 /\ config.impressions = 2
    /\ proxied = {1}
    /\ issuedP[1] = 2 /\ issuedR[1] = 2 /\ exhausted[1] = 2 /\ proxyReports[1] = 2
    /\ exhausted[2] >= 1 /\ proxyReports[2] = 0

\* frame f has entered processRetryQueue with a non-empty queue
RetryPassRun(f) == frames[f].retryBatches > 0

\* the retry runs whose request is on the wire or backing off, as <<frame, position>>
RetryInFlight ==
    {fp \in FrameIds \X Positions :
        /\ frames[fp[1]].pc = "retry"
        /\ fp[2] <= Len(frames[fp[1]].run)
        /\ InFlight(frames[fp[1]].run[fp[2]])}

\* C28: the retry pass runs at most once per session, only after the last
\* primary batch has been aggregated and only on a non-empty retry queue; it
\* executes each queued task at most once (the chunk at index ri is the slice
\* of the queue at ri, and no task is queued twice), with at most
\* max(1, floor(width / 2)) tasks in flight at a time, and leaves the retry
\* queue empty.  Stated as the claim makes it.
C28_RetryPassOnce ==
    /\ Cardinality({f \in FrameIds : RetryPassRun(f)}) <= 1
    /\ \A f \in FrameIds :
           /\ frames[f].pc \in {"retry", "retryGap"} =>
                  /\ RetryPassRun(f)
                  /\ Len(retryQueue) > 0
                  /\ frames[f].batchIndex = totalBatches
                  /\ stats.batchCount = totalBatches
                  /\ \A g \in FrameIds : frames[g].pc \notin {"stagger", "join", "gap"}
                  /\ \A p \in 1 .. Len(frames[f].run) :
                         /\ frames[f].ri * retryConcurrency + p <= Len(retryQueue)
                         /\ frames[f].run[p].id = retryQueue[frames[f].ri * retryConcurrency + p]
           /\ (RetryPassRun(f) /\ frames[f].pc \in {"done", "rejected"}) => retryQueue = <<>>
    /\ \A i, j \in 1 .. Len(retryQueue) : retryQueue[i] = retryQueue[j] => i = j
    /\ Cardinality(RetryInFlight) <= Max(1, concurrency \div 2)

\* C29: in every reachable state the retry queue holds at most 1000 entries
\* and no task whose retry counter exceeds maxRetries; a failure aggregated
\* while the queue holds 1000 entries is counted as failed and not enqueued
\* (a step never makes the queue longer than the cap).  Stated as the claim
\* makes it.
C29_RetryQueueBounded ==
    /\ [](/\ Len(retryQueue) <= RetryQueueCap
           /\ \A i \in 1 .. Len(retryQueue) : retryCount[retryQueue[i]] <= config.maxRetries)
    /\ [][Len(retryQueue) >= RetryQueueCap =>
              /\ Len(retryQueue') <= Len(retryQueue)
              /\ stats.sent' - stats.sent = stats.failed' - stats.failed
                                             + stats.successful' - stats.successful]_vars

\* C30: the inter-batch wait applied after any batch with index > 10 is never
\* below 200 ms, whether or not jitter is enabled.  Stated as the claim makes it.
C30_WaitAtLeastFloor ==
    lastWait.batchIndex > 10 => lastWait.micros >= MinAdaptiveDelay * 1000

\* C31: before jitter the inter-batch delay equals delayMs for a batch index
\* <= 10 and max(200, delayMs * (1 - 0.3 * sent / total)) for a batch index
\* > 10, and is therefore never above delayMs and never below 70% of delayMs.
\* Stated as the claim makes it (delays in microseconds).
C31_ReductionAtMostThirtyPercent ==
    lastWait.batchIndex >= 0 =>
        LET delayMs == config.delay * 1000
            reduced == (delayMs * (10 * stats.total - 3 * lastWait.sent)) \div (10 * stats.total)
        IN /\ lastWait.batchIndex <= 10 => lastWait.adapted = delayMs
           /\ lastWait.batchIndex > 10 =>
                  lastWait.adapted = IF reduced < 200000 THEN 200000 ELSE reduced
           /\ lastWait.adapted <= delayMs
           /\ 10 * lastWait.adapted >= 7 * delayMs

\* backoffDelay over the attempts 1 .. MaxRetries + 2 and every pair of whole
\* jitter values in [0, 100): the later wait is the greater one
BackoffTabulated ==
    \A k \in 1 .. MaxRetries + 2 :
        /\ backoffDelay(k + 1, 0) > backoffDelay(k, 0)
        /\ \A j1, j2 \in 0 .. 99 : backoffDelay(k + 1, j2) > backoffDelay(k, j1)

\* C32: within one executor run the backoff wait is strictly increasing in
\* the attempt number: the wait after failure k + 1 is greater than the wait
\* after failure k, without jitter and for every pair of jitter values.
C32_BackoffIncreasing ==
    /\ BackoffTabulated
    /\ \A t \in Tasks :
           backoffs[t].attempt >= 2 =>
               /\ backoffs[t].before > 0
               /\ backoffs[t].wait > backoffs[t].before

\* C32 witness: a run is in its third backoff, drawn with the least jitter,
\* after a second one drawn with the greatest
C32_Witness ==
    \E t \in Tasks :
        /\ backoffs[t].attempt = 3
        /\ backoffs[t].before = 499 /\ backoffs[t].wait = 800
        /\ \E f \in FrameIds, p \in Positions :
               /\ p <= Len(frames[f].run)
               /\ frames[f].run[p].id = t /\ frames[f].run[p].st = "backoff"

C34_CancelledAttemptTerminal ==
    [][\A f \in FrameIds, p \in Positions :
          (/\ p <= Len(frames[f].run) /\ p <= Len(frames'[f].run)
           /\ frames[f].run[p].aborted
           /\ frames'[f].run[p].id = frames[f].run[p].id
           /\ frames'[f].pc = frames[f].pc /\ frames'[f].batchIndex = frames[f].batchIndex)
          => /\ (frames'[f].run[p].st = "backoff") => (frames[f].run[p].st = "backoff")
             /\ (frames'[f].run[p].st = "fetch") => (frames[f].run[p].st = "fetch")]_vars

\* C35: a task that ends because stop() cancelled it never causes
\* reportProxyFailure: no proxy failure is reported for a run whose signal has
\* been aborted.  Stated as the claim makes it.
C35_NoReportOnCancellation ==
    [][\A t \in Tasks :
          proxyReports'[t] # proxyReports[t] =>
              ~\E f \in FrameIds, p \in Positions :
                   /\ p <= Len(frames[f].run)
                   /\ frames[f].run[p].id = t
                   /\ frames[f].run[p].aborted]_vars

\* C36: in every reachable state stats.successful <= stats.sent and
\* stats.failed <= stats.sent, so that the success rate computed at
\* finalization lies between 0% and 100%.  Stated as the claim makes it.
C36_CountersWithinSent ==
    /\ stats.successful <= stats.sent
    /\ stats.failed <= stats.sent

\* adjustConcurrency over the delays 1 .. MaxPlannerDelay and the planner
\* delays: balanced and aggressive agree for the positive ones, and no tier
\* goes above 10
CapsTabulated ==
    /\ \A d \in (1 .. MaxPlannerDelay) \cup {x \in PlannerDelays : x > 0} :
           adjustConcurrency(d, "balanced") = adjustConcurrency(d, "aggressive")
    /\ \A d \in (1 .. MaxPlannerDelay) \cup PlannerDelays, t \in PlannerTiers :
           adjustConcurrency(d, t) <= 10

\* C37: for every positive delay the tiers balanced and aggressive yield the
\* same width, and no tier ever yields a width above 10 (the caps 12 and 15
\* never bind); no batch of a session holds more than 10 tasks.
C37_UpperCapsNeverBind ==
    /\ CapsTabulated
    /\ concurrency <= 10
    /\ (config.delay > 0 /\ config.proxyQuality \in {"balanced", "aggressive"}) =>
           /\ concurrency = adjustConcurrency(config.delay, "balanced")
           /\ concurrency = adjustConcurrency(config.delay, "aggressive")
    /\ \A f \in FrameIds : Len(frames[f].run) <= 10

\* C37 witness: a session of the aggressive tier with delay 1 has width 10,
\* not 15, and has a batch in flight
C37_Witness ==
    /\ config.delay = 1 /\ config.proxyQuality = "aggressive"
    /\ concurrency = 10
    /\ \E f \in FrameIds : BatchInFlight(f)

\* C38: ProxyManager.initialize() loads and validates the proxy pool at most
\* once, also when the startup call and the timer call overlap
C38_LoadedAtMostOnce ==
    /\ proxyManager.loads <= 1
    /\ proxyManager.validations <= 1

\* C39: after a session started through startTraffic() has completed without
\* stopTraffic(), the application's isRunning flag is false again, so that the
\* next startTraffic() is accepted
C39_RunningFlagCleared ==
    (app.pc = "resumed" /\ ~app.stopped) =>
        /\ ~app.isRunning
        /\ app.lastCall # "refused"

====
